---- MODULE Spec2Model ----
(***************************************************************************)
(* wsp: a WebSocket <-> byte-stream tunnel (src/src/main.rs).              *)
(*                                                                         *)
(* Side A is the WebSocket connection (`stream` in Client::run, `inbound`  *)
(* in forward); side B is the byte stream (stdin/stdout in Client::run,    *)
(* the `outbound` TcpStream in forward).  Each session is one run of the   *)
(* select! loop; the server's accept loop spawns one session per accepted  *)
(* connection.                                                             *)
(*                                                                         *)
(* The forwarder never inspects a payload byte, so bytes are modelled as   *)
(* labels: the k-th byte side A's peer produces in a session is <<"A", k>>, *)
(* the k-th byte side B's peer produces is <<"B", k>>, which makes a        *)
(* dropped, duplicated, reordered or misrouted byte visible.  Zero is the   *)
(* zero fill of a read buffer (vec![0; BUFFER_SIZE]).                       *)
(***************************************************************************)
EXTENDS Integers, Sequences, FiniteSets, TLC

\* main.rs:13 -- const BUFFER_SIZE: usize = 1024, scaled down so that a read
\* that fills the buffer and a read that does not are both enumerable.
BUFFER_SIZE == 2

\* Sessions the acceptor may spawn (the client role uses session 1 only).
MaxSessions == 2
\* Environment events (messages, bursts of bytes, end-of-stream marks) the
\* peers produce: in a run with one session, in a run of the server with
\* several, and in a run checked for liveness.
MaxEvents == 3
MaxSrvEvents == 2
MaxLiveEvents == 2
\* Longest payload of a Binary or Ping message delivered by side A.
MaxLen == 2

Sessions == 1..MaxSessions

VARIABLES
    role,       \* "client" | "server": Command::Client / Command::Server
    acc,        \* Server::run's position: "bind" | "accept" | "stopped" | "none"
    session,    \* per session: the state of one forwarding task (see NewSession)
    warnings,   \* sessions for which tracing::warn! was called (main.rs:107)
    runResult,  \* results returned by Client::run / Server::run to main
    budget,     \* environment events still allowed
    conns       \* inbound connections still to arrive at the listener

vars == <<role, acc, session, warnings, runResult, budget, conns>>

----------------------------------------------------------------------------
\* Helpers

Min(a, b) == IF a < b THEN a ELSE b

Range(f) == {f[i] : i \in DOMAIN f}

IsPrefix(p, q) == Len(p) <= Len(q) /\ SubSeq(q, 1, Len(p)) = p

\* the n bytes a peer produces after its first `base` bytes
Labels(side, base, n) == [i \in 1..n |-> <<side, base + i>>]

Zero == <<"0", 0>>

\* An I/O operation issued by the forwarder and its outcome.
\* op:   "connect_ws" | "handshake" | "connect" | "nodelay" |
\*       "recv" | "send" | "read" | "write"
\* kind: the message kind for recv/send, "bytes" for read/write, "-" otherwise
Ev(op, kind, data, ok) == [op |-> op, kind |-> kind, data |-> data, ok |-> ok]

RECURSIVE Flatten(_)
Flatten(evs) == IF evs = <<>> THEN <<>> ELSE Head(evs).data \o Flatten(Tail(evs))

\* Result<(), anyhow::Error> values; an error is named by the operation that failed
Ok == [ok |-> TRUE, op |-> "-"]
Err(op) == [ok |-> FALSE, op |-> op]

\* vec![0; BUFFER_SIZE]
ZeroBuf == [i \in 1..BUFFER_SIZE |-> Zero]

\* (variant: the bytes read are not stored in the buffer)
ReadKeepsOld(buf, data) == buf

\* read(&mut buf): the bytes read overwrite the front of the buffer
ReadInto(buf, data) ==
    [i \in 1..BUFFER_SIZE |-> IF i <= Len(data) THEN data[i] ELSE buf[i]]

\* (variant: the whole buffer is sent, not the part that was read)
ChunkWhole(buf, size) == buf

\* buffer[..size].to_vec()
Chunk(buf, size) == SubSeq(buf, 1, size)

\* (variant: the Pong carries no payload)
PongEmpty(p) == <<>>

\* Message::Pong(p) for a received Message::Ping(p)
PongFor(p) == p

\* The state of a forwarding task before it is spawned.
NewSession ==
    [ pc       |-> "idle",   \* position of the task
      inbound  |-> <<>>,     \* messages side A has ready for stream.next()
      outbound |-> <<>>,     \* bytes side B has ready for read()
      bEnd     |-> "open",   \* side B after its pending bytes: "open"|"eof"|"err"
      rdy      |-> FALSE,    \* read readiness of the outbound socket (readable())
      cur      |-> <<>>,     \* payload of the operation being awaited
      buffer   |-> ZeroBuf,  \* the read buffer
      trace    |-> <<>>,     \* operations issued so far, in order
      result   |-> <<>>,     \* terminal results produced
      openA    |-> FALSE,    \* the task holds the WebSocket connection
      openB    |-> FALSE,    \* the task holds the side-B endpoint
      madeA    |-> 0,        \* payload bytes side A's peer has produced
      madeB    |-> 0 ]       \* bytes side B's peer has produced

LoopPcs == {"select", "pong", "write", "read", "send"}
Active(s) == session[s].pc \in LoopPcs

Set(s, r) == session' = [session EXCEPT ![s] = r]

\* the task's state with operation e logged
Did(s, e) == [session[s] EXCEPT !.trace = Append(@, e)]

\* ... and with the message just received removed from side A
Took(s, e) == [session[s] EXCEPT !.trace = Append(@, e), !.inbound = Tail(@)]

\* select! is waiting and side A has a message of kind k ready
Next_A(s, k) ==
    /\ session[s].pc = "select"
    /\ session[s].inbound # <<>>
    /\ Head(session[s].inbound).kind = k

RecvEv(s) ==
    LET m == Head(session[s].inbound)
    IN  Ev("recv", m.kind, m.data, m.kind # "Err")

----------------------------------------------------------------------------
\* Leaving the task

\* (variant: the side-B endpoint outlives the task)
ReturnKeepsB(s, b, r) ==
    /\ Set(s, [b EXCEPT !.pc = "done", !.result = Append(@, r), !.cur = <<>>,
                        !.openA = FALSE])
    /\ IF role = "server"
       THEN /\ warnings' = IF r.ok THEN warnings ELSE Append(warnings, s)
            /\ UNCHANGED runResult
       ELSE /\ runResult' = Append(runResult, r)
            /\ UNCHANGED warnings
    /\ UNCHANGED <<role, acc, budget, conns>>

\* (variant: forward is awaited by the accept loop with `?`, so its error ends
\* Server::run)
ReturnPropagated(s, b, r) ==
    /\ Set(s, [b EXCEPT !.pc = "done", !.result = Append(@, r), !.cur = <<>>,
                        !.openA = FALSE, !.openB = FALSE])
    /\ IF role = "server" /\ ~r.ok
       THEN acc' = "stopped" /\ runResult' = Append(runResult, r)
       ELSE acc' = acc /\ runResult' = IF role = "server" THEN runResult
                                                         ELSE Append(runResult, r)
    /\ UNCHANGED <<role, warnings, budget, conns>>

\* `return Err(e)` / `?` / `break` + `Ok(())`: the task, in state b, ends with
\* result r and its locals (both endpoints) are dropped; the server's spawn
\* wrapper logs an error as a warning, the client's result is Client::run's.
Return(s, b, r) ==
    /\ Set(s, [b EXCEPT !.pc = "done", !.result = Append(@, r), !.cur = <<>>,
                        !.openA = FALSE, !.openB = FALSE])
    /\ IF role = "server"
       THEN /\ warnings' = IF r.ok THEN warnings ELSE Append(warnings, s)
            /\ UNCHANGED runResult
       ELSE /\ runResult' = Append(runResult, r)
            /\ UNCHANGED warnings
    /\ UNCHANGED <<role, acc, budget, conns>>

\* the loop goes round: back to select!
Continue(s, r) ==
    /\ Set(s, r)
    /\ UNCHANGED <<role, acc, warnings, runResult, budget, conns>>

----------------------------------------------------------------------------
\* The peers (the environment of the forwarder)

DataKinds == {"Binary", "Ping"}
OtherKinds == {"Pong", "Text", "Close"}
EndKinds == {"None", "Err"}

\* Side A's peer makes one more item ready for stream.next(): a Binary message
\* with n payload bytes, a Ping with none or one, a Pong/Text/Close message
\* (one payload byte), the end of the stream (None) or a receive error.
\* Nothing follows a Close, the end of the stream or an error.
ArriveA(s, kind, n) ==
    /\ budget > 0
    /\ session[s].openA
    /\ \A i \in DOMAIN session[s].inbound :
          session[s].inbound[i].kind \notin {"Close", "None", "Err"}
    /\ \/ kind = "Binary"
       \/ kind = "Ping" /\ n <= 1
       \/ kind \in OtherKinds /\ n = 1
       \/ kind \in EndKinds /\ n = 0
    /\ Set(s, [session[s] EXCEPT
                 !.inbound = Append(@, [kind |-> kind,
                                        data |-> Labels("A", session[s].madeA, n)]),
                 !.madeA = @ + n])
    /\ budget' = budget - 1
    /\ conns' = conns
    /\ UNCHANGED <<role, acc, warnings, runResult>>

\* Side B's peer makes n more bytes ready for read(): one byte, or as many as
\* fill the read buffer.
ArriveB(s, n) ==
    /\ budget > 0
    /\ session[s].openB
    /\ session[s].bEnd = "open"
    /\ Set(s, [session[s] EXCEPT
                 !.outbound = @ \o Labels("B", session[s].madeB, n),
                 !.madeB = @ + n,
                 !.rdy = (role = "server")])
    /\ budget' = budget - 1
    /\ conns' = conns
    /\ UNCHANGED <<role, acc, warnings, runResult>>

\* Side B's peer closes its stream (e = "eof") or the stream breaks ("err").
EndB(s, e) ==
    /\ budget > 0
    /\ session[s].openB
    /\ session[s].bEnd = "open"
    /\ Set(s, [session[s] EXCEPT !.bEnd = e])
    /\ budget' = budget - 1
    /\ conns' = conns
    /\ UNCHANGED <<role, acc, warnings, runResult>>

----------------------------------------------------------------------------
\* Client::run (main.rs:66-97); the client's task is session 1

\* main.rs:67-70: connect_async_with_config(...).await?, then stdin, stdout
\* and the buffer are set up
ConnectWsOk(s) ==
    /\ session[s].pc = "connect_ws"
    /\ Continue(s, [Did(s, Ev("connect_ws", "-", <<>>, TRUE)) EXCEPT
                      !.pc = "select", !.openA = TRUE, !.openB = TRUE,
                      !.buffer = ZeroBuf])

ConnectWsFail(s) ==
    /\ session[s].pc = "connect_ws"
    /\ Return(s, Did(s, Ev("connect_ws", "-", <<>>, FALSE)), Err("connect_ws"))

\* main.rs:75: None => break
ClientRecvNone(s) ==
    /\ role = "client" /\ Next_A(s, "None")
    /\ Return(s, Took(s, RecvEv(s)), Ok)

\* main.rs:76: Some(Err(e)) => return Err(e.into())
ClientRecvErr(s) ==
    /\ role = "client" /\ Next_A(s, "Err")
    /\ Return(s, Took(s, RecvEv(s)), Err("recv"))

\* main.rs:77: Some(Ok(Message::Close(_))) => break
ClientRecvClose(s) ==
    /\ role = "client" /\ Next_A(s, "Close")
    /\ Return(s, Took(s, RecvEv(s)), Ok)

\* main.rs:78-79: Some(Ok(Message::Ping(p))) => stream.send(Message::Pong(p))
ClientRecvPing(s) ==
    /\ role = "client" /\ Next_A(s, "Ping")
    /\ Continue(s, [Took(s, RecvEv(s)) EXCEPT
                      !.pc = "pong",
                      !.cur = PongFor(Head(session[s].inbound).data)])

\* main.rs:79-80: the send completes; continue
ClientPongOk(s) ==
    /\ role = "client" /\ session[s].pc = "pong"
    /\ Continue(s, [Did(s, Ev("send", "Pong", session[s].cur, TRUE)) EXCEPT
                      !.pc = "select", !.cur = <<>>])

\* (variant: the result of the send is ignored)
ClientPongIgnore(s) ==
    /\ role = "client" /\ session[s].pc = "pong"
    /\ Continue(s, [Did(s, Ev("send", "Pong", session[s].cur, FALSE)) EXCEPT
                      !.pc = "select", !.cur = <<>>])

\* main.rs:79: the send fails; `?` returns the error
ClientPongFail(s) ==
    /\ role = "client" /\ session[s].pc = "pong"
    /\ Return(s, Did(s, Ev("send", "Pong", session[s].cur, FALSE)), Err("send"))

\* main.rs:82,85: Some(Ok(Message::Binary(msg))) => msg, then
\* stdout.write_all(&msg); write_all of an empty slice issues no write
ClientRecvBinary(s) ==
    /\ role = "client" /\ Next_A(s, "Binary")
    /\ LET msg == Head(session[s].inbound).data
       IN  Continue(s, [Took(s, RecvEv(s)) EXCEPT
                          !.pc = IF msg = <<>> THEN "select" ELSE "write",
                          !.cur = msg])

\* main.rs:83: Some(Ok(_)) => continue
ClientRecvOther(s) ==
    /\ role = "client"
    /\ \E k \in {"Pong", "Text"} : Next_A(s, k)
    /\ Continue(s, Took(s, RecvEv(s)))

\* (variant: write instead of write_all -- a short write counts as success)
ClientWriteOnce(s, n) ==
    /\ role = "client" /\ session[s].pc = "write"
    /\ n \in 1..Len(session[s].cur)
    /\ Continue(s, [Did(s, Ev("write", "bytes", SubSeq(session[s].cur, 1, n), TRUE))
                      EXCEPT !.cur = <<>>, !.pc = "select"])

\* main.rs:85: write_all: one write of the next n >= 1 pending bytes succeeds;
\* write_all returns once nothing is pending
ClientWrite(s, n) ==
    /\ role = "client" /\ session[s].pc = "write"
    /\ n \in 1..Len(session[s].cur)
    /\ LET rest == SubSeq(session[s].cur, n + 1, Len(session[s].cur))
       IN  Continue(s, [Did(s, Ev("write", "bytes", SubSeq(session[s].cur, 1, n), TRUE))
                          EXCEPT !.cur = rest,
                                 !.pc = IF rest = <<>> THEN "select" ELSE "write"])

\* main.rs:85: a write fails (or writes nothing); `?` returns the error
ClientWriteFail(s) ==
    /\ role = "client" /\ session[s].pc = "write"
    /\ Return(s, Did(s, Ev("write", "bytes", <<>>, FALSE)), Err("write"))

\* main.rs:87-92: stdin.read(&mut buffer) completes with size > 0; then
\* stream.send(Message::Binary(buffer[..size].to_vec().into()))
ClientRead(s) ==
    /\ role = "client" /\ session[s].pc = "select"
    /\ session[s].outbound # <<>>
    /\ LET size == Min(Len(session[s].outbound), BUFFER_SIZE)
           data == SubSeq(session[s].outbound, 1, size)
           buffer == ReadInto(session[s].buffer, data)
       IN  Continue(s, [Did(s, Ev("read", "bytes", data, TRUE)) EXCEPT
                          !.outbound = SubSeq(@, size + 1, Len(@)),
                          !.buffer = buffer,
                          !.cur = Chunk(buffer, size),
                          !.pc = "send"])

\* (variant: the end of stdin is reported as an error)
ClientReadZeroErr(s) ==
    /\ role = "client" /\ session[s].pc = "select"
    /\ session[s].outbound = <<>> /\ session[s].bEnd = "eof"
    /\ Return(s, Did(s, Ev("read", "bytes", <<>>, TRUE)), Err("read"))

\* main.rs:88-91: size == 0 => break
ClientReadZero(s) ==
    /\ role = "client" /\ session[s].pc = "select"
    /\ session[s].outbound = <<>> /\ session[s].bEnd = "eof"
    /\ Return(s, Did(s, Ev("read", "bytes", <<>>, TRUE)), Ok)

\* main.rs:88: let size = size?
ClientReadFail(s) ==
    /\ role = "client" /\ session[s].pc = "select"
    /\ session[s].outbound = <<>> /\ session[s].bEnd = "err"
    /\ Return(s, Did(s, Ev("read", "bytes", <<>>, FALSE)), Err("read"))

\* main.rs:92: the send completes; the loop goes round
ClientSendOk(s) ==
    /\ role = "client" /\ session[s].pc = "send"
    /\ Continue(s, [Did(s, Ev("send", "Binary", session[s].cur, TRUE)) EXCEPT
                      !.pc = "select", !.cur = <<>>])

\* main.rs:92: the send fails; `?` returns the error
ClientSendFail(s) ==
    /\ role = "client" /\ session[s].pc = "send"
    /\ Return(s, Did(s, Ev("send", "Binary", session[s].cur, FALSE)), Err("send"))

----------------------------------------------------------------------------
\* Server::run (main.rs:101-112)

\* main.rs:102-103: bind and parse succeed
BindOk ==
    /\ acc = "bind"
    /\ acc' = "accept"
    /\ UNCHANGED <<role, session, warnings, runResult, budget, conns>>

\* main.rs:102-103: `?` returns the bind or parse error
BindFail ==
    /\ acc = "bind"
    /\ acc' = "stopped"
    /\ runResult' = Append(runResult, Err("bind"))
    /\ UNCHANGED <<role, session, warnings, budget, conns>>

\* main.rs:104-109: listener.accept() returns Ok; a task running forward is
\* spawned for the connection and the loop accepts again
Accept(s) ==
    /\ acc = "accept"
    /\ conns > 0
    /\ session[s].pc = "idle"
    /\ \A t \in Sessions : t < s => session[t].pc # "idle"
    /\ Set(s, [session[s] EXCEPT !.pc = "handshake"])
    /\ conns' = conns - 1
    /\ UNCHANGED <<role, acc, warnings, runResult, budget>>

\* main.rs:56-62: when Server::run has returned, block_on returns, main
\* returns and the runtime is dropped: a spawned task that has not finished is
\* dropped where it stands, with its endpoints, and produces no result
Aborted(r) ==
    IF r.pc \in {"idle", "done"}
    THEN r
    ELSE [r EXCEPT !.pc = "aborted", !.cur = <<>>, !.openA = FALSE, !.openB = FALSE]

\* (variant: the accept error is returned with `?`)
AcceptFailPropagated ==
    /\ acc = "accept"
    /\ acc' = "stopped"
    /\ runResult' = Append(runResult, Err("accept"))
    /\ session' = [s \in Sessions |-> Aborted(session[s])]
    /\ UNCHANGED <<role, warnings, budget, conns>>

\* main.rs:104,111: listener.accept() returns Err; the while-let loop ends and
\* Server::run returns Ok(()) to main, which ends the runtime
AcceptFail ==
    /\ acc = "accept"
    /\ acc' = "stopped"
    /\ runResult' = Append(runResult, Ok)
    /\ session' = [s \in Sessions |-> Aborted(session[s])]
    /\ UNCHANGED <<role, warnings, budget, conns>>

----------------------------------------------------------------------------
\* forward (main.rs:115-146)

\* main.rs:116: accept_async(stream).await?
HandshakeOk(s) ==
    /\ session[s].pc = "handshake"
    /\ Continue(s, [Did(s, Ev("handshake", "-", <<>>, TRUE)) EXCEPT
                      !.pc = "connect", !.openA = TRUE])

HandshakeFail(s) ==
    /\ session[s].pc = "handshake"
    /\ Return(s, Did(s, Ev("handshake", "-", <<>>, FALSE)), Err("handshake"))

\* the outbound socket opened by the task of session s
Outbound(s) == <<"out", s>>

\* (variant: the tasks share one outbound connection, that of the first)
ConnectShared(s) ==
    /\ session[s].pc = "connect"
    /\ Continue(s, [Did(s, Ev("connect", "-", <<Outbound(1)>>, TRUE)) EXCEPT
                      !.pc = "nodelay", !.openB = TRUE])

\* main.rs:117: TcpStream::connect(addr).await? -- a new socket, owned by the
\* task (`let mut outbound`)
ConnectOk(s) ==
    /\ session[s].pc = "connect"
    /\ Continue(s, [Did(s, Ev("connect", "-", <<Outbound(s)>>, TRUE)) EXCEPT
                      !.pc = "nodelay", !.openB = TRUE])

ConnectFail(s) ==
    /\ session[s].pc = "connect"
    /\ Return(s, Did(s, Ev("connect", "-", <<>>, FALSE)), Err("connect"))

\* main.rs:118: outbound.set_nodelay(true)?
NoDelayOk(s) ==
    /\ session[s].pc = "nodelay"
    /\ Continue(s, [Did(s, Ev("nodelay", "-", <<>>, TRUE)) EXCEPT !.pc = "select"])

\* (variant: the result of set_nodelay is ignored)
NoDelayIgnored(s) ==
    /\ session[s].pc = "nodelay"
    /\ Continue(s, [Did(s, Ev("nodelay", "-", <<>>, FALSE)) EXCEPT !.pc = "select"])

NoDelayFail(s) ==
    /\ session[s].pc = "nodelay"
    /\ Return(s, Did(s, Ev("nodelay", "-", <<>>, FALSE)), Err("nodelay"))

\* main.rs:123: None => break
FwdRecvNone(s) ==
    /\ role = "server" /\ Next_A(s, "None")
    /\ Return(s, Took(s, RecvEv(s)), Ok)

\* main.rs:124: Some(Err(e)) => return Err(e.into())
FwdRecvErr(s) ==
    /\ role = "server" /\ Next_A(s, "Err")
    /\ Return(s, Took(s, RecvEv(s)), Err("recv"))

\* (variant: a Close message is skipped like a Text message)
FwdRecvCloseContinue(s) ==
    /\ role = "server" /\ Next_A(s, "Close")
    /\ Continue(s, Took(s, RecvEv(s)))

\* main.rs:125: Some(Ok(Message::Close(_))) => break
FwdRecvClose(s) ==
    /\ role = "server" /\ Next_A(s, "Close")
    /\ Return(s, Took(s, RecvEv(s)), Ok)

\* main.rs:126-127: Some(Ok(Message::Ping(p))) => inbound.send(Message::Pong(p))
FwdRecvPing(s) ==
    /\ role = "server" /\ Next_A(s, "Ping")
    /\ Continue(s, [Took(s, RecvEv(s)) EXCEPT
                      !.pc = "pong",
                      !.cur = PongFor(Head(session[s].inbound).data)])

\* main.rs:127-128: the send completes; continue
FwdPongOk(s) ==
    /\ role = "server" /\ session[s].pc = "pong"
    /\ Continue(s, [Did(s, Ev("send", "Pong", session[s].cur, TRUE)) EXCEPT
                      !.pc = "select", !.cur = <<>>])

\* main.rs:127: the send fails; `?` returns the error
FwdPongFail(s) ==
    /\ role = "server" /\ session[s].pc = "pong"
    /\ Return(s, Did(s, Ev("send", "Pong", session[s].cur, FALSE)), Err("send"))

\* (variant: an empty Binary message is taken for the end of the stream)
FwdRecvBinaryEmptyEnds(s) ==
    /\ role = "server" /\ Next_A(s, "Binary")
    /\ LET msg == Head(session[s].inbound).data
       IN  IF msg = <<>>
           THEN Return(s, Took(s, RecvEv(s)), Ok)
           ELSE Continue(s, [Took(s, RecvEv(s)) EXCEPT !.pc = "write", !.cur = msg])

\* main.rs:130,133: Some(Ok(Message::Binary(msg))) => msg, then
\* outbound.write_all(&msg); write_all of an empty slice issues no write
FwdRecvBinary(s) ==
    /\ role = "server" /\ Next_A(s, "Binary")
    /\ LET msg == Head(session[s].inbound).data
       IN  Continue(s, [Took(s, RecvEv(s)) EXCEPT
                          !.pc = IF msg = <<>> THEN "select" ELSE "write",
                          !.cur = msg])

\* (variant: every message that is not a Ping or a Close is forwarded)
FwdRecvOtherForward(s) ==
    /\ role = "server"
    /\ \E k \in {"Pong", "Text"} : Next_A(s, k)
    /\ Continue(s, [Took(s, RecvEv(s)) EXCEPT
                      !.pc = "write", !.cur = Head(session[s].inbound).data])

\* main.rs:131: Some(Ok(_)) => continue
FwdRecvOther(s) ==
    /\ role = "server"
    /\ \E k \in {"Pong", "Text"} : Next_A(s, k)
    /\ Continue(s, Took(s, RecvEv(s)))

\* (variant: write instead of write_all -- a short write counts as success)
FwdWriteOnce(s, n) ==
    /\ role = "server" /\ session[s].pc = "write"
    /\ n \in 1..Len(session[s].cur)
    /\ Continue(s, [Did(s, Ev("write", "bytes", SubSeq(session[s].cur, 1, n), TRUE))
                      EXCEPT !.cur = <<>>, !.pc = "select"])

\* main.rs:133: write_all: one write of the next n >= 1 pending bytes succeeds;
\* write_all returns once nothing is pending
FwdWrite(s, n) ==
    /\ role = "server" /\ session[s].pc = "write"
    /\ n \in 1..Len(session[s].cur)
    /\ LET rest == SubSeq(session[s].cur, n + 1, Len(session[s].cur))
       IN  Continue(s, [Did(s, Ev("write", "bytes", SubSeq(session[s].cur, 1, n), TRUE))
                          EXCEPT !.cur = rest,
                                 !.pc = IF rest = <<>> THEN "select" ELSE "write"])

\* main.rs:133: a write fails (or writes nothing); `?` returns the error
FwdWriteFail(s) ==
    /\ role = "server" /\ session[s].pc = "write"
    /\ Return(s, Did(s, Ev("write", "bytes", <<>>, FALSE)), Err("write"))

\* (variant: readable() resolves at once, whatever the socket's state)
ReadableAlways(s) == TRUE

\* outbound.readable() resolves while the socket's read readiness is set; the
\* readiness is set by arriving bytes and, for good, by the end of the stream
Readable(s) == session[s].rdy \/ session[s].bEnd # "open"

\* (variant: the branch of side B is a timer that ends an idle session)
FwdIdleTimeout(s) ==
    /\ role = "server" /\ session[s].pc = "select"
    /\ Return(s, session[s], Ok)

\* main.rs:135-137: the readable() branch is taken: a fresh buffer is
\* allocated and outbound.read(&mut buf) is awaited inside the branch
FwdReadable(s) ==
    /\ role = "server" /\ session[s].pc = "select"
    /\ Readable(s)
    /\ Continue(s, [session[s] EXCEPT !.pc = "read", !.buffer = ZeroBuf])

\* main.rs:137: read finds nothing to read on an open socket: the readiness
\* is cleared and the read stays pending until side B has something
FwdReadWouldBlock(s) ==
    /\ role = "server" /\ session[s].pc = "read"
    /\ session[s].rdy
    /\ session[s].outbound = <<>> /\ session[s].bEnd = "open"
    /\ Continue(s, [session[s] EXCEPT !.rdy = FALSE])

\* main.rs:137-141: read completes with n > 0 (a read that does not fill the
\* buffer clears the readiness); then
\* inbound.send(Message::Binary(buf[..n].to_vec().into()))
FwdRead(s) ==
    /\ role = "server" /\ session[s].pc = "read"
    /\ session[s].outbound # <<>>
    /\ LET n == Min(Len(session[s].outbound), BUFFER_SIZE)
           data == SubSeq(session[s].outbound, 1, n)
           buf == ReadInto(session[s].buffer, data)
       IN  Continue(s, [Did(s, Ev("read", "bytes", data, TRUE)) EXCEPT
                          !.outbound = SubSeq(@, n + 1, Len(@)),
                          !.rdy = IF n < BUFFER_SIZE THEN FALSE ELSE @,
                          !.buffer = buf,
                          !.cur = Chunk(buf, n),
                          !.pc = "send"])

\* (variant: the end of side B's stream is reported as an error)
FwdReadZeroErr(s) ==
    /\ role = "server" /\ session[s].pc = "read"
    /\ session[s].outbound = <<>> /\ session[s].bEnd = "eof"
    /\ Return(s, Did(s, Ev("read", "bytes", <<>>, TRUE)), Err("read"))

\* main.rs:138-140: n == 0 => break
FwdReadZero(s) ==
    /\ role = "server" /\ session[s].pc = "read"
    /\ session[s].outbound = <<>> /\ session[s].bEnd = "eof"
    /\ Return(s, Did(s, Ev("read", "bytes", <<>>, TRUE)), Ok)

\* main.rs:137: the read fails; `?` returns the error
FwdReadFail(s) ==
    /\ role = "server" /\ session[s].pc = "read"
    /\ session[s].outbound = <<>> /\ session[s].bEnd = "err"
    /\ Return(s, Did(s, Ev("read", "bytes", <<>>, FALSE)), Err("read"))

\* main.rs:141: the send completes; the loop goes round
FwdSendOk(s) ==
    /\ role = "server" /\ session[s].pc = "send"
    /\ Continue(s, [Did(s, Ev("send", "Binary", session[s].cur, TRUE)) EXCEPT
                      !.pc = "select", !.cur = <<>>])

\* main.rs:141: the send fails; `?` returns the error
FwdSendFail(s) ==
    /\ role = "server" /\ session[s].pc = "send"
    /\ Return(s, Did(s, Ev("send", "Binary", session[s].cur, FALSE)), Err("send"))

----------------------------------------------------------------------------
\* main (main.rs:53-63): the role is chosen by the command line

\* One session: Client::run, or one task running forward on an accepted stream
Init ==
    /\ role \in {"client", "server"}
    /\ acc = IF role = "server" THEN "accept" ELSE "none"
    /\ session = [s \in Sessions |->
                    IF s = 1
                    THEN [NewSession EXCEPT
                            !.pc = IF role = "client" THEN "connect_ws" ELSE "handshake"]
                    ELSE NewSession]
    /\ warnings = <<>>
    /\ runResult = <<>>
    /\ budget = MaxEvents
    /\ conns = 0

\* One session as in Init, with the peers' events bounded for liveness checking
LiveInit ==
    /\ role \in {"client", "server"}
    /\ acc = IF role = "server" THEN "accept" ELSE "none"
    /\ session = [s \in Sessions |->
                    IF s = 1
                    THEN [NewSession EXCEPT
                            !.pc = IF role = "client" THEN "connect_ws" ELSE "handshake"]
                    ELSE NewSession]
    /\ warnings = <<>>
    /\ runResult = <<>>
    /\ budget = MaxLiveEvents
    /\ conns = 0

\* Server::run from its start, with up to MaxSessions inbound connections
SrvInit ==
    /\ role = "server"
    /\ acc = "bind"
    /\ session = [s \in Sessions |-> NewSession]
    /\ warnings = <<>>
    /\ runResult = <<>>
    /\ budget = MaxSrvEvents
    /\ conns = MaxSessions

Peer(s) ==
    \/ \E kind \in DataKinds \cup OtherKinds \cup EndKinds, n \in 0..MaxLen :
          ArriveA(s, kind, n)
    \/ \E n \in {1, BUFFER_SIZE} : ArriveB(s, n)
    \/ \E e \in {"eof", "err"} : EndB(s, e)

ClientStep(s) ==
    \/ ConnectWsOk(s) \/ ConnectWsFail(s)
    \/ ClientRecvNone(s) \/ ClientRecvErr(s) \/ ClientRecvClose(s)
    \/ ClientRecvPing(s) \/ ClientPongOk(s) \/ ClientPongFail(s)
    \/ ClientRecvBinary(s) \/ ClientRecvOther(s)
    \/ (\E n \in 1..MaxLen : ClientWrite(s, n)) \/ ClientWriteFail(s)
    \/ ClientRead(s) \/ ClientReadZero(s) \/ ClientReadFail(s)
    \/ ClientSendOk(s) \/ ClientSendFail(s)

FwdStep(s) ==
    \/ HandshakeOk(s) \/ HandshakeFail(s)
    \/ ConnectOk(s) \/ ConnectFail(s)
    \/ NoDelayOk(s) \/ NoDelayFail(s)
    \/ FwdRecvNone(s) \/ FwdRecvErr(s) \/ FwdRecvClose(s)
    \/ FwdRecvPing(s) \/ FwdPongOk(s) \/ FwdPongFail(s)
    \/ FwdRecvBinary(s) \/ FwdRecvOther(s)
    \/ (\E n \in 1..MaxLen : FwdWrite(s, n)) \/ FwdWriteFail(s)
    \/ FwdReadable(s) \/ FwdReadWouldBlock(s)
    \/ FwdRead(s) \/ FwdReadZero(s) \/ FwdReadFail(s)
    \/ FwdSendOk(s) \/ FwdSendFail(s)

Acceptor == BindOk \/ BindFail \/ (\E s \in Sessions : Accept(s)) \/ AcceptFail

Next == \E s \in Sessions : Peer(s) \/ ClientStep(s) \/ FwdStep(s)

SrvNext == Acceptor \/ \E s \in Sessions : Peer(s) \/ FwdStep(s)

Spec == Init /\ [][Next]_vars

\* The steps of a task, by what makes them happen
SetupStep(s) ==
    \/ ConnectWsOk(s) \/ ConnectWsFail(s)
    \/ HandshakeOk(s) \/ HandshakeFail(s)
    \/ ConnectOk(s) \/ ConnectFail(s)
    \/ NoDelayOk(s) \/ NoDelayFail(s)

\* select! takes the branch of side A
SideAStep(s) ==
    \/ ClientRecvNone(s) \/ ClientRecvErr(s) \/ ClientRecvClose(s)
    \/ ClientRecvPing(s) \/ ClientRecvBinary(s) \/ ClientRecvOther(s)
    \/ FwdRecvNone(s) \/ FwdRecvErr(s) \/ FwdRecvClose(s)
    \/ FwdRecvPing(s) \/ FwdRecvBinary(s) \/ FwdRecvOther(s)

\* select! takes the branch of side B
SideBStep(s) ==
    \/ ClientRead(s) \/ ClientReadZero(s) \/ ClientReadFail(s)
    \/ FwdReadable(s)

\* an operation awaited inside a branch completes
IoStep(s) ==
    \/ ClientPongOk(s) \/ ClientPongFail(s)
    \/ (\E n \in 1..MaxLen : ClientWrite(s, n)) \/ ClientWriteFail(s)
    \/ ClientSendOk(s) \/ ClientSendFail(s)
    \/ FwdPongOk(s) \/ FwdPongFail(s)
    \/ (\E n \in 1..MaxLen : FwdWrite(s, n)) \/ FwdWriteFail(s)
    \/ FwdReadWouldBlock(s) \/ FwdRead(s) \/ FwdReadZero(s) \/ FwdReadFail(s)
    \/ FwdSendOk(s) \/ FwdSendFail(s)

\* select! polls its branches in random order (no `biased;`), so a branch
\* that is ready again and again is taken sooner or later; a task that can
\* run does run
SchedFair ==
    \A s \in Sessions :
        WF_vars(SetupStep(s)) /\ SF_vars(SideAStep(s)) /\ SF_vars(SideBStep(s))

\* every awaited send, write and read completes (with Ok or with an error)
\* once it can
IoFair == \A s \in Sessions : WF_vars(IoStep(s))

FairSpec == Spec /\ SchedFair /\ IoFair

LiveSpec == LiveInit /\ [][Next]_vars /\ SchedFair /\ IoFair

SrvSpec == SrvInit /\ [][SrvNext]_vars

\* One session that has just entered its loop (main.rs:71, 119): its setup
\* succeeded, nothing has been delivered yet
LoopInit ==
    /\ role \in {"client", "server"}
    /\ acc = IF role = "server" THEN "accept" ELSE "none"
    /\ session = [s \in Sessions |->
                    IF s = 1
                    THEN [NewSession EXCEPT
                            !.pc = "select", !.openA = TRUE, !.openB = TRUE,
                            !.trace = IF role = "client"
                                      THEN <<Ev("connect_ws", "-", <<>>, TRUE)>>
                                      ELSE <<Ev("handshake", "-", <<>>, TRUE),
                                             Ev("connect", "-", <<Outbound(1)>>, TRUE),
                                             Ev("nodelay", "-", <<>>, TRUE)>>]
                    ELSE NewSession]
    /\ warnings = <<>>
    /\ runResult = <<>>
    /\ budget = MaxEvents
    /\ conns = 0

\* the steps of the loop and of its peers
LoopNext == \E s \in Sessions : Peer(s) \/ SideAStep(s) \/ SideBStep(s) \/ IoStep(s)

LoopSpec == LoopInit /\ [][LoopNext]_vars

----------------------------------------------------------------------------
\* What a session has done so far, read off its trace

Trace(s) == session[s].trace

IsRecv(e) == e.op = "recv"
IsBinaryRecv(e) == e.op = "recv" /\ e.kind = "Binary"
IsWrite(e) == e.op = "write" /\ e.ok
IsRead(e) == e.op = "read" /\ e.ok
IsBinarySent(e) == e.op = "send" /\ e.kind = "Binary" /\ e.ok

\* payload bytes of the Binary messages taken from side A, in receive order
BinaryIn(s) == Flatten(SelectSeq(Trace(s), IsBinaryRecv))
\* bytes written to side B, in write order
WrittenB(s) == Flatten(SelectSeq(Trace(s), IsWrite))
\* bytes consumed from side B, in read order
ReadB(s) == Flatten(SelectSeq(Trace(s), IsRead))
\* payload bytes of the Binary messages sent on side A, in send order
SentBinary(s) == Flatten(SelectSeq(Trace(s), IsBinarySent))

Last(q) == q[Len(q)]

\* the last operation of the session is a failed one of kind op
FailedLast(s, op) ==
    /\ Trace(s) # <<>>
    /\ Last(Trace(s)).op = op
    /\ ~Last(Trace(s)).ok

----------------------------------------------------------------------------
\* C1 (as stated): in every reachable state the Binary payloads sent on side A,
\* concatenated in send order, equal the bytes consumed from side B so far; no
\* byte taken from side B is dropped.  (Read with the benefit of the doubt:
\* a chunk whose send is still pending is not counted as consumed.)
C1_SentEqualsConsumed ==
    \A s \in Sessions : session[s].pc # "send" => SentBinary(s) = ReadB(s)

\* C1 (amended): the Binary payloads sent on side A, concatenated, are the
\* bytes consumed from side B, in order and without addition or duplication,
\* up to the last chunk read: while its send is pending, and for good once
\* that send has failed, exactly that chunk is consumed but not sent; in every
\* other state the two are equal.
C1_BToA ==
    \A s \in Sessions :
        IF session[s].pc = "send"
        THEN ReadB(s) = SentBinary(s) \o session[s].cur /\ session[s].cur # <<>>
        ELSE IF FailedLast(s, "send") /\ Last(Trace(s)).kind = "Binary"
        THEN ReadB(s) = SentBinary(s) \o Last(Trace(s)).data
        ELSE ReadB(s) = SentBinary(s)

\* C1 witness: a chunk has been forwarded, and more side-B bytes are waiting
\* while the forwarder is busy with a side-A message (the read lost the race)
C1_Witness ==
    \E s \in Sessions :
        /\ session[s].pc = "write"
        /\ session[s].outbound # <<>>
        /\ ReadB(s) # <<>>
        /\ SentBinary(s) = ReadB(s)

----------------------------------------------------------------------------
\* write_all has returned Ok for every Binary message taken from side A except
\* the one being written and the one whose write failed
Unwritten(s) ==
    IF session[s].pc = "write" \/ FailedLast(s, "write")
    THEN Last(SelectSeq(Trace(s), IsBinaryRecv)).data
    ELSE <<>>

\* C2 (as stated): in every reachable state the bytes written to side B are
\* exactly the concatenated payloads of the Binary messages received on side A
\* whose handling has completed.
C2_WrittenEqualsCompleted ==
    \A s \in Sessions : WrittenB(s) \o Unwritten(s) = BinaryIn(s)

\* C2 (amended): the bytes written to side B are always a prefix of the
\* concatenated payloads of the Binary messages received on side A (so no
\* Ping, Pong, Text or Close payload contributes), they include every payload
\* whose write has completed, and they are exactly that concatenation whenever
\* no write is pending and none has failed; of the message being written (or
\* whose write failed) a proper prefix may already be on side B.
C2_AToB ==
    \A s \in Sessions :
        /\ IsPrefix(WrittenB(s), BinaryIn(s))
        /\ Len(BinaryIn(s)) - Len(WrittenB(s)) <= Len(Unwritten(s))
        /\ session[s].pc = "write" =>
              /\ WrittenB(s) \o session[s].cur = BinaryIn(s)
              /\ session[s].cur # <<>>
        /\ FailedLast(s, "write") => WrittenB(s) # BinaryIn(s)

\* C2 witness: two Binary messages have been written out in full, with a
\* message of another kind between them
C2_Witness ==
    \E s \in Sessions :
        /\ session[s].pc = "select"
        /\ Len(SelectSeq(Trace(s), IsBinaryRecv)) = 2
        /\ Len(SelectSeq(Trace(s), IsRecv)) = 3
        /\ IsBinaryRecv(Last(SelectSeq(Trace(s), IsRecv)))
        /\ Len(WrittenB(s)) > 2
        /\ WrittenB(s) = BinaryIn(s)

----------------------------------------------------------------------------
\* C3: a Ping taken from side A is followed at once by the send of a Pong with
\* the same payload: no other operation comes between, so whatever side A
\* delivers after the Ping is received after the Pong was sent (if the send
\* fails the session ends there); and no byte of the Ping's payload is ever
\* written to side B.
C3_PingPong ==
    \A s \in Sessions : \A i \in DOMAIN Trace(s) :
        LET e == Trace(s)[i]
        IN  (e.op = "recv" /\ e.kind = "Ping") =>
              /\ i = Len(Trace(s)) =>
                    session[s].pc = "pong" /\ session[s].cur = e.data
              /\ i < Len(Trace(s)) =>
                    /\ Trace(s)[i + 1].op = "send"
                    /\ Trace(s)[i + 1].kind = "Pong"
                    /\ Trace(s)[i + 1].data = e.data
                    /\ Trace(s)[i + 1].ok \/ (i + 1 = Len(Trace(s)) /\ session[s].pc = "done")
              /\ Range(e.data) \cap Range(WrittenB(s)) = {}

\* C3 witness: a Ping with a payload was answered, and a Binary message that
\* came after it has been written to side B
C3_Witness ==
    \E s \in Sessions : \E i \in DOMAIN Trace(s) :
        /\ Trace(s)[i].op = "recv" /\ Trace(s)[i].kind = "Ping"
        /\ Trace(s)[i].data # <<>>
        /\ i + 2 < Len(Trace(s))
        /\ Trace(s)[i + 1].ok
        /\ IsBinaryRecv(Trace(s)[i + 2])
        /\ WrittenB(s) # <<>>

----------------------------------------------------------------------------
\* The operations that end a session

\* a Close message, the end of side A's stream, or a zero-byte read of side B
IsCleanEnd(e) ==
    \/ e.op = "recv" /\ e.kind \in {"Close", "None"}
    \/ e.op = "read" /\ e.ok /\ e.data = <<>>

IsTerminal(e) == IsCleanEnd(e) \/ ~e.ok

\* the error a failed operation is reported as
ErrOf(e) == Err(e.op)

\* C4: a session is Closed (its task has returned) exactly when one of the
\* terminating operations has happened; that operation is the last one the
\* session ever issued, so nothing is received, read, written or sent after
\* it and the session is never Active again; and the terminal result exists
\* exactly once, for the client as the one result of Client::run.
C4_IdempotentShutdown ==
    \A s \in Sessions :
        /\ \A i \in DOMAIN Trace(s) : IsTerminal(Trace(s)[i]) => i = Len(Trace(s))
        /\ session[s].pc = "done" <=> (Trace(s) # <<>> /\ IsTerminal(Last(Trace(s))))
        /\ Len(session[s].result) = IF session[s].pc = "done" THEN 1 ELSE 0
        /\ session[s].pc = "done" => session[s].cur = <<>>
        /\ role = "client" /\ s = 1 => runResult = session[s].result

\* C4 witness: a session is Closed while both sides still have input ready
\* for it
C4_Witness ==
    \E s \in Sessions :
        /\ session[s].pc = "done"
        /\ session[s].inbound # <<>>
        /\ session[s].outbound # <<>>
        /\ Len(Trace(s)) > 3

----------------------------------------------------------------------------
\* C5: the first operation of a session that fails is the last operation the
\* session issues, and the session's terminal result is that failure; the
\* server logs it as a warning, the client returns it from Client::run.
C5_FailurePropagation ==
    \A s \in Sessions : \A i \in DOMAIN Trace(s) :
        ~Trace(s)[i].ok =>
            /\ i = Len(Trace(s))
            /\ session[s].pc = "done"
            /\ session[s].result = <<ErrOf(Trace(s)[i])>>
            /\ IF role = "server"
               THEN Len(SelectSeq(warnings, LAMBDA w : w = s)) = 1
               ELSE runResult = <<ErrOf(Trace(s)[i])>>

\* C5 witness: an operation of the loop failed after other operations had
\* succeeded, with input still ready on side A
C5_Witness ==
    \E s \in Sessions :
        /\ Len(Trace(s)) > 3
        /\ ~Last(Trace(s)).ok
        /\ Last(Trace(s)).op \in {"recv", "send", "read", "write"}
        /\ session[s].inbound # <<>>

----------------------------------------------------------------------------
\* C6: a Close message, the end of side A's stream and a zero-byte read of
\* side B each end the session with Ok and without a warning, and are the last
\* operation the session issues (no write or send follows).
C6_CleanTermination ==
    \A s \in Sessions : \A i \in DOMAIN Trace(s) :
        IsCleanEnd(Trace(s)[i]) =>
            /\ i = Len(Trace(s))
            /\ session[s].pc = "done"
            /\ session[s].result = <<Ok>>
            /\ s \notin Range(warnings)
            /\ role = "client" => runResult = <<Ok>>

\* C6 witness: side B's stream ended cleanly after data had been forwarded,
\* while side A still had a message ready
C6_Witness ==
    \E s \in Sessions :
        /\ session[s].pc = "done"
        /\ Last(Trace(s)).op = "read" /\ IsCleanEnd(Last(Trace(s)))
        /\ session[s].inbound # <<>>
        /\ SentBinary(s) # <<>>

----------------------------------------------------------------------------
\* C7: when a session of the server fails (handshake, outbound connect,
\* set_nodelay, or a transport operation of the loop), the step changes nothing
\* of any other session, the accept loop and Server::run's result, and logs one
\* warning for that session; and every session forwards as C1 and C2 say
\* whatever happens to the others (as long as the server runs).
C7_Isolation ==
    /\ [](acc # "stopped" => C1_BToA /\ C2_AToB)
    /\ [][\A n \in Sessions :
            (session[n].pc # "done" /\ session'[n].pc = "done"
                /\ ~Last(session'[n].result).ok) =>
              /\ \A m \in Sessions \ {n} : session'[m] = session[m]
              /\ acc' = acc
              /\ conns' = conns
              /\ runResult' = runResult
              /\ warnings' = Append(warnings, n)]_vars

\* C7 witness: session 1 has ended with a transport failure; session 2 is
\* active and has forwarded data, and the accept loop is still accepting
C7_Witness ==
    /\ session[1].pc = "done"
    /\ session[1].result = <<Err("read")>>
    /\ warnings = <<1>>
    /\ Active(2)
    /\ SentBinary(2) # <<>>
    /\ acc = "accept"

----------------------------------------------------------------------------
\* side A has delivered nothing and has nothing ready
ASilent(s) ==
    session[s].inbound = <<>> /\ SelectSeq(Trace(s), IsRecv) = <<>>

\* side B has produced no byte and has not ended
BSilent(s) == session[s].madeB = 0 /\ session[s].bEnd = "open"

\* every byte side B's peer has produced has been sent on side A
AllSentToA(s) ==
    /\ session[s].outbound = <<>>
    /\ SentBinary(s) = Labels("B", 0, session[s].madeB)

\* every Binary message side A has delivered has been written to side B
AllWrittenToB(s) ==
    /\ \A i \in DOMAIN session[s].inbound : session[s].inbound[i].kind # "Binary"
    /\ session[s].pc # "write"
    /\ WrittenB(s) = BinaryIn(s)

\* C8: if side A stays silent for ever, whatever side B produces is in the end
\* all sent on side A in Binary messages (unless the session has ended); if
\* side B stays silent for ever, every Binary message side A delivers is in
\* the end written to side B (unless the session has ended); the awaited
\* operations are taken to complete.  A side that has once delivered something
\* is never silent again, so "silent for ever" is "silent from some point on".
C8_Bidirectional ==
    <>[](\A s \in Sessions :
            /\ (ASilent(s) /\ Active(s)) => AllSentToA(s)
            /\ (BSilent(s) /\ Active(s)) => AllWrittenToB(s))

\* C8 witness: with side A silent, two chunks of side B have been sent on side A
C8_Witness ==
    \E s \in Sessions :
        /\ ASilent(s)
        /\ session[s].pc = "select"
        /\ Len(SelectSeq(Trace(s), IsBinarySent)) >= 2
        /\ AllSentToA(s)

----------------------------------------------------------------------------
NRecv(s) == Len(SelectSeq(Trace(s), IsRecv))
NRead(s) == Len(SelectSeq(Trace(s), IsRead))

\* C9 (as stated): in an Active session with input pending on both sides,
\* neither direction starves the other: the handler of side A runs again and
\* so does the handler of side B (or the session ends).  Runs in which the
\* peers have used up their events are left out, so a run that refutes this
\* is one in which the peers could still act.
C9_NoStarvation ==
    \A s \in Sessions : \A k \in 0..MaxEvents :
        /\ (Active(s) /\ session[s].inbound # <<>> /\ session[s].outbound # <<>>
                /\ NRecv(s) = k)
              ~> (~Active(s) \/ NRecv(s) > k \/ budget = 0)
        /\ (Active(s) /\ session[s].inbound # <<>> /\ session[s].outbound # <<>>
                /\ NRead(s) = k)
              ~> (~Active(s) \/ NRead(s) > k \/ budget = 0)

----------------------------------------------------------------------------
----------------------------------------------------------------------------
\* the accept loop has run and has ended (on a failed accept)
AcceptorStopped == role = "server" /\ acc = "stopped" /\ runResult # <<Err("bind")>>

\* C11 (as stated): a failed listener.accept() does not stop the acceptor:
\* connections that arrive after it are still accepted, so the accept loop
\* never ends while inbound connections are still to come.
C11_AcceptorSurvives ==
    AcceptorStopped => conns = 0

----------------------------------------------------------------------------
\* C20: when listener.accept() fails the accept loop ends, Server::run returns
\* Ok(()) -- its one result, no error -- without logging anything, and from
\* then on no session is spawned and nothing more is returned.
C20_SilentStop ==
    /\ [](AcceptorStopped => runResult = <<Ok>>)
    /\ [][(acc = "accept" /\ acc' = "stopped") =>
            /\ runResult' = <<Ok>>
            /\ warnings' = warnings
            /\ conns' = conns]_vars
    /\ [][acc = "stopped" =>
            /\ acc' = "stopped"
            /\ runResult' = runResult
            /\ conns' = conns
            /\ \A s \in Sessions :
                  session[s].pc = "idle" => session'[s].pc = "idle"]_vars

\* C20 witness: the accept loop has ended with Ok(()) after one session was
\* spawned, with a connection still to come and a session never spawned
C20_Witness ==
    /\ AcceptorStopped
    /\ runResult = <<Ok>>
    /\ conns > 0
    /\ session[1].pc # "idle"
    /\ session[MaxSessions].pc = "idle"

----------------------------------------------------------------------------
\* the sessions spawned so far (one task running forward each)
Spawned == {s \in Sessions : session[s].pc # "idle"}

IsConnected(e) == e.op = "connect" /\ e.ok
IsConnectTried(e) == e.op = "connect"

\* the outbound connections the task of session s has opened
OutboundOf(s) == SelectSeq(Trace(s), IsConnected)

\* C12 (as stated): every accepted connection has exactly one forwarder and
\* exactly one outbound connection, never zero and never more than one.  (Read
\* with the benefit of the doubt: a session still being set up is not counted.)
C12_ExactlyOneOutbound ==
    /\ Cardinality(Spawned) = MaxSessions - conns
    /\ \A s \in Sessions :
          session[s].pc \in LoopPcs \cup {"nodelay", "done"} => Len(OutboundOf(s)) = 1

\* C12 (amended): every accepted connection has exactly one forwarder, which
\* opens at most one outbound connection, and only after its handshake
\* succeeded; a session in its loop has exactly one, its own: no two sessions
\* have the same outbound connection.  A session has none when its handshake
\* or its connect failed (or when it has not come that far).
C12_OneToOne ==
    /\ Cardinality(Spawned) = MaxSessions - conns
    /\ \A s \in Sessions :
          /\ Len(SelectSeq(Trace(s), IsConnectTried)) <= 1
          /\ session[s].openB => Len(OutboundOf(s)) = 1
          /\ session[s].pc \in LoopPcs \cup {"nodelay"} =>
                Len(OutboundOf(s)) = 1 /\ session[s].openB
          /\ Len(OutboundOf(s)) = 1 =>
                /\ Trace(s)[1].op = "handshake" /\ Trace(s)[1].ok
                /\ IsConnected(Trace(s)[2])
          /\ (session[s].pc = "done" /\ OutboundOf(s) = <<>>) =>
                /\ Last(Trace(s)).op \in {"handshake", "connect"}
                /\ ~Last(Trace(s)).ok
          /\ \A t \in Sessions \ {s} :
                Range(Flatten(OutboundOf(s))) \cap Range(Flatten(OutboundOf(t))) = {}

\* C12 witness: two connections were accepted; the handshake of the first
\* failed, so it has no outbound connection; the second is forwarding on its
\* own outbound connection
C12_Witness ==
    /\ conns = 0
    /\ session[1].pc = "done" /\ OutboundOf(1) = <<>>
    /\ Active(2) /\ Flatten(OutboundOf(2)) = <<Outbound(2)>>
    /\ SentBinary(2) # <<>>

----------------------------------------------------------------------------
\* the operations i+1 .. j-1 of session s are all writes
OnlyWrites(s, i, j) == \A m \in (i + 1)..(j - 1) : Trace(s)[m].op = "write"

\* the bytes written by the operations i+1 .. j-1 of session s
WrittenIn(s, i, j) == Flatten(SelectSeq(SubSeq(Trace(s), i + 1, j - 1), IsWrite))

\* C13: after a Binary message is taken from side A the session issues only
\* writes until they add up to the whole payload (or a write fails and the
\* session ends): no receive, read or send starts before; after a chunk is
\* read from side B the next operation is the send of that chunk as a Binary
\* message; and a payload is held (an event is being handled) only while the
\* session awaits the Pong, the write or the send it belongs to.
C13_Sequential ==
    [](\A s \in Sessions : \A i \in DOMAIN Trace(s) :
           LET e == Trace(s)[i]
               n == Len(Trace(s))
           IN  /\ IsBinaryRecv(e) =>
                     /\ \A j \in (i + 1)..n :
                           (OnlyWrites(s, i, j) /\ Trace(s)[j].op # "write") =>
                               WrittenIn(s, i, j) = e.data
                     /\ OnlyWrites(s, i, n + 1) =>
                           \/ /\ session[s].pc = "write"
                              /\ session[s].cur # <<>>
                              /\ WrittenIn(s, i, n + 1) \o session[s].cur = e.data
                           \/ session[s].pc = "done" /\ FailedLast(s, "write")
                           \/ /\ session[s].pc \in {"select", "read"}
                              /\ WrittenIn(s, i, n + 1) = e.data
               /\ (IsRead(e) /\ e.data # <<>>) =>
                     IF i = n
                     THEN session[s].pc = "send" /\ session[s].cur = e.data
                     ELSE /\ Trace(s)[i + 1].op = "send"
                          /\ Trace(s)[i + 1].kind = "Binary"
                          /\ Trace(s)[i + 1].data = e.data
                          /\ Trace(s)[i + 1].ok \/ i + 1 = n
               /\ session[s].cur # <<>> => session[s].pc \in {"pong", "write", "send"})

\* C13 witness: a Binary message is partly written, and both sides have more
\* input ready that has to wait for the rest of it
C13_Witness ==
    \E s \in Sessions :
        /\ session[s].pc = "write"
        /\ Last(Trace(s)).op = "write"
        /\ session[s].inbound # <<>>
        /\ session[s].outbound # <<>>

----------------------------------------------------------------------------
\* a message matched by the arm Some(Ok(_)): neither Binary, Ping nor Close
IsOtherRecv(e) == e.op = "recv" /\ e.kind \in {"Pong", "Text"}

IsSend(e) == e.op = "send"

\* C14: a Text or Pong message taken from side A is followed by no write and
\* no send: the next operation, if any, is the next receive or read; its
\* payload never reaches side B nor goes back to side A; the session is still
\* in its loop; and the Binary messages around it are written in full as if it
\* had not been there.
C14_OthersDiscarded ==
    [](\A s \in Sessions : \A i \in DOMAIN Trace(s) :
           LET e == Trace(s)[i]
           IN  IsOtherRecv(e) =>
                 /\ i = Len(Trace(s)) =>
                       session[s].pc \in {"select", "read"} /\ session[s].cur = <<>>
                 /\ i < Len(Trace(s)) => Trace(s)[i + 1].op \in {"recv", "read"}
                 /\ Range(e.data) \cap Range(WrittenB(s)) = {}
                 /\ Range(e.data) \cap Range(Flatten(SelectSeq(Trace(s), IsSend))) = {}
                 /\ session[s].pc \in {"select", "read"} => WrittenB(s) = BinaryIn(s))

\* C14 witness: a Text message and a Pong message were taken from side A, and
\* the Binary message that came after them has been written to side B
C14_Witness ==
    \E s \in Sessions : \E i, j \in DOMAIN Trace(s) :
        /\ i < j /\ j < Len(Trace(s))
        /\ IsOtherRecv(Trace(s)[i]) /\ IsOtherRecv(Trace(s)[j])
        /\ Trace(s)[i].kind # Trace(s)[j].kind
        /\ IsBinaryRecv(Trace(s)[j + 1])
        /\ session[s].pc = "select"
        /\ WrittenB(s) # <<>>
        /\ WrittenB(s) = BinaryIn(s)

----------------------------------------------------------------------------
IsBinarySend(e) == e.op = "send" /\ e.kind = "Binary"

\* the bytes the reads before operation i of session s returned
ReadBefore(s, i) == Flatten(SelectSeq(SubSeq(Trace(s), 1, i - 1), IsRead))

\* C15: every Binary message sent on side A carries exactly the bytes of the
\* read just before it: at least one byte, at most BUFFER_SIZE, no fill byte
\* of the buffer and no byte of an earlier read; and every read that returned
\* bytes is followed by one such send and no second one.
C15_ChunkFraming ==
    [](\A s \in Sessions : \A i \in DOMAIN Trace(s) :
           LET e == Trace(s)[i]
               n == Len(Trace(s))
           IN  /\ IsBinarySend(e) =>
                     /\ i > 1
                     /\ IsRead(Trace(s)[i - 1])
                     /\ e.data = Trace(s)[i - 1].data
                     /\ Len(e.data) \in 1..BUFFER_SIZE
                     /\ Zero \notin Range(e.data)
                     /\ Range(e.data) \cap Range(ReadBefore(s, i - 1)) = {}
                     /\ i < n => ~IsBinarySend(Trace(s)[i + 1])
               /\ (IsRead(e) /\ e.data # <<>>) =>
                     /\ Len(e.data) <= BUFFER_SIZE
                     /\ i < n => IsBinarySend(Trace(s)[i + 1])
                     /\ i = n => session[s].pc = "send" /\ session[s].cur = e.data)

\* C15 witness: the client's buffer was filled by one read and then reused for
\* a shorter one: it still holds a byte of the first read, and the second
\* message carried only the bytes of the second read
C15_Witness ==
    \E s \in Sessions :
        /\ role = "client"
        /\ session[s].pc = "select"
        /\ Len(SelectSeq(Trace(s), IsBinarySent)) = 2
        /\ Len(Last(Trace(s)).data) < BUFFER_SIZE
        /\ session[s].buffer[BUFFER_SIZE] \in Range(ReadBefore(s, Len(Trace(s)) - 1))

----------------------------------------------------------------------------
SetupOps == <<"handshake", "connect", "nodelay">>
LoopOps == {"recv", "send", "read", "write"}

\* C16: a forward task first performs the WebSocket handshake, then -- only
\* if that succeeded -- opens the outbound connection, then -- only if that
\* succeeded -- sets the no-delay option, and only if that succeeded does it
\* receive, read, write or send anything; a failure of one of the three ends
\* the session with that error (logged as a warning), nothing forwarded.
C16_SetupOrder ==
    [](\A s \in Sessions : role = "server" =>
           /\ \A i \in DOMAIN Trace(s) :
                 LET e == Trace(s)[i]
                 IN  /\ i <= 3 => e.op = SetupOps[i]
                     /\ i > 3 => e.op \in LoopOps
                     /\ (i <= 3 /\ i < Len(Trace(s))) => e.ok
                     /\ (i <= 3 /\ ~e.ok) =>
                           /\ session[s].pc = "done"
                           /\ session[s].result = <<Err(e.op)>>
                           /\ s \in Range(warnings)
                           /\ WrittenB(s) = <<>> /\ SentBinary(s) = <<>>
           /\ session[s].pc \in LoopPcs =>
                 /\ Len(Trace(s)) >= 3
                 /\ \A i \in 1..3 : Trace(s)[i].ok
           /\ session[s].openB => Trace(s)[1].ok
           /\ session[s].pc = "connect" => Len(Trace(s)) = 1
           /\ session[s].pc = "nodelay" => Len(Trace(s)) = 2)

\* C16 witness: set_nodelay failed after the handshake and the connect
\* succeeded; side A already had a message ready, and nothing was forwarded
C16_Witness ==
    \E s \in Sessions :
        /\ role = "server"
        /\ session[s].result = <<Err("nodelay")>>
        /\ Len(Trace(s)) = 3
        /\ session[s].inbound # <<>>
        /\ session[s].outbound # <<>>

----------------------------------------------------------------------------
\* the session's setup has succeeded: it has entered its loop
EnteredLoop(s) ==
    \E i \in DOMAIN Trace(s) :
        Trace(s)[i].op \in {"connect_ws", "nodelay"} /\ Trace(s)[i].ok

----------------------------------------------------------------------------
\* The two loops as functions of what their environment answers.  An answer
\* is an operation of the trace read as input: for a recv the message
\* delivered, for a read the bytes returned (or the failure), for a send
\* whether it succeeded, for a write how many bytes it took (or the failure).
\* A run yields the operations the loop issues with the payloads it chooses
\* (out) and its result.

EngineStart ==
    [pc |-> "select", cur |-> <<>>, buffer |-> ZeroBuf, out |-> <<>>, result |-> <<>>]

\* the loop returns r
Ended(st, r) == [st EXCEPT !.pc = "done", !.cur = <<>>, !.result = <<r>>]

\* the loop issues operation op of kind k with payload d
Issue(st, op, k, d) == [st EXCEPT !.out = Append(@, <<op, k, d>>)]

\* main.rs:73-85 / 121-133 without the awaits: the match on the message
OnRecv(st, e) ==
    CASE e.kind = "None"   -> Ended(st, Ok)
      [] e.kind = "Err"    -> Ended(st, Err("recv"))
      [] e.kind = "Close"  -> Ended(st, Ok)
      [] e.kind = "Ping"   -> [st EXCEPT !.pc = "pong", !.cur = PongFor(e.data)]
      [] e.kind = "Binary" -> IF e.data = <<>>
                              THEN st
                              ELSE [st EXCEPT !.pc = "write", !.cur = e.data]
      [] OTHER             -> st

\* main.rs:79, 92 / 127, 141: an awaited send of kind k completes
OnSend(st, e, k) ==
    LET sent == Issue(st, "send", k, st.cur)
    IN  IF e.ok
        THEN [sent EXCEPT !.pc = "select", !.cur = <<>>]
        ELSE Ended(sent, Err("send"))

\* main.rs:85 / 133: one write of write_all completes
OnWrite(st, e) ==
    LET n == Len(e.data)
        rest == SubSeq(st.cur, n + 1, Len(st.cur))
    IN  IF ~e.ok
        THEN Ended(Issue(st, "write", "bytes", <<>>), Err("write"))
        ELSE IF n = 0 \/ n > Len(st.cur)
        THEN [st EXCEPT !.pc = "stuck"]
        ELSE [Issue(st, "write", "bytes", SubSeq(st.cur, 1, n)) EXCEPT
                !.cur = rest,
                !.pc = IF rest = <<>> THEN "select" ELSE "write"]

\* main.rs:87-92 / 136-141: a read into buffer `into` completes
OnRead(st, e, into) ==
    IF ~e.ok
    THEN Ended(st, Err("read"))
    ELSE IF e.data = <<>>
    THEN Ended(st, Ok)
    ELSE LET buffer == ReadInto(into, e.data)
         IN  [st EXCEPT !.pc = "send", !.buffer = buffer,
                        !.cur = Chunk(buffer, Len(e.data))]

\* main.rs:71-95: one answer taken by the loop of Client::run; the buffer is
\* the one allocated before the loop
ClientEngine(st, e) ==
    CASE st.pc = "select" /\ e.op = "recv" -> OnRecv(st, e)
      [] st.pc = "select" /\ e.op = "read" -> OnRead(st, e, st.buffer)
      [] st.pc = "pong" /\ e.op = "send"   -> OnSend(st, e, "Pong")
      [] st.pc = "write" /\ e.op = "write" -> OnWrite(st, e)
      [] st.pc = "send" /\ e.op = "send"   -> OnSend(st, e, "Binary")
      [] OTHER                             -> [st EXCEPT !.pc = "stuck"]

\* main.rs:119-143: one answer taken by the loop of forward; the buffer is
\* allocated for each read
FwdEngine(st, e) ==
    CASE st.pc = "select" /\ e.op = "recv" -> OnRecv(st, e)
      [] st.pc = "select" /\ e.op = "read" -> OnRead(st, e, ZeroBuf)
      [] st.pc = "pong" /\ e.op = "send"   -> OnSend(st, e, "Pong")
      [] st.pc = "write" /\ e.op = "write" -> OnWrite(st, e)
      [] st.pc = "send" /\ e.op = "send"   -> OnSend(st, e, "Binary")
      [] OTHER                             -> [st EXCEPT !.pc = "stuck"]

RECURSIVE ClientRun(_, _)
ClientRun(st, answers) ==
    IF answers = <<>>
    THEN st
    ELSE ClientRun(ClientEngine(st, Head(answers)), Tail(answers))

RECURSIVE FwdRun(_, _)
FwdRun(st, answers) ==
    IF answers = <<>>
    THEN st
    ELSE FwdRun(FwdEngine(st, Head(answers)), Tail(answers))

IsLoopOp(e) == e.op \in LoopOps
IsIssued(e) == e.op \in {"send", "write"}

\* what the loop of session s was answered
Answers(s) == SelectSeq(Trace(s), IsLoopOp)

\* the sends and writes session s issued, with their payloads
Issued(s) ==
    LET q == SelectSeq(Trace(s), IsIssued)
    IN  [i \in DOMAIN q |-> <<q[i].op, q[i].kind, q[i].data>>]

\* C18: whatever a session's loop has been answered so far, in that order,
\* the loop of Client::run and the loop of forward, given these answers, issue
\* the same sends and writes with the same payloads and return the same
\* result; and this is what the session -- client or server -- did.
C18_SameEngine ==
    [](\A s \in Sessions :
        \A c \in {ClientRun(EngineStart, Answers(s))} :
        \A f \in {FwdRun(EngineStart, Answers(s))} :
            /\ c.pc # "stuck" /\ f.pc # "stuck"
            /\ c.out = f.out
            /\ c.result = f.result
            /\ c.pc = f.pc
            /\ c.cur = f.cur
            /\ c.out = Issued(s)
            /\ EnteredLoop(s) => c.result = session[s].result
            /\ session[s].pc \in LoopPcs \ {"read"} => c.pc = session[s].pc)

\* C18 witness: a session of the server has received, written, read and sent,
\* and ended on a failed write after part of a message was written; the loop
\* of Client::run, given the same answers, ends with the same result
C18_Witness ==
    \E s \in Sessions :
        /\ role = "server"
        /\ session[s].result = <<Err("write")>>
        /\ WrittenB(s) # <<>>
        /\ SentBinary(s) # <<>>
        /\ ClientRun(EngineStart, Answers(s)).result = session[s].result

----------------------------------------------------------------------------
IsEmptyBinaryRecv(e) == IsBinaryRecv(e) /\ e.data = <<>>
IsZeroRead(e) == IsRead(e) /\ e.data = <<>>

\* C19: a Binary message with an empty payload taken from side A does not end
\* the session and issues no write: the session is in its loop right after
\* it, and the next operation, if any, is the next receive or read; whereas a
\* read of side B that returns zero bytes is always the session's last
\* operation and ends it with Ok.
C19_EmptyAsymmetry ==
    [](\A s \in Sessions : \A i \in DOMAIN Trace(s) :
           LET e == Trace(s)[i]
               n == Len(Trace(s))
           IN  /\ IsEmptyBinaryRecv(e) =>
                     /\ i = n => session[s].pc \in {"select", "read"}
                     /\ i < n => Trace(s)[i + 1].op \in {"recv", "read"}
               /\ IsZeroRead(e) =>
                     /\ i = n
                     /\ session[s].pc = "done"
                     /\ session[s].result = <<Ok>>)

\* C19 witness: a session took an empty Binary message from side A, went on
\* to forward a chunk of side B, and ended on a zero-byte read of side B
C19_Witness ==
    \E s \in Sessions :
        /\ \E i \in DOMAIN Trace(s) : IsEmptyBinaryRecv(Trace(s)[i])
        /\ SentBinary(s) # <<>>
        /\ IsZeroRead(Last(Trace(s)))
        /\ session[s].pc = "done"

====
